---------------------------- MODULE Spec2Model ----------------------------
(***************************************************************************)
(* LinkLayerSNMPCollector: the value decoder (parseSNMPVariable,           *)
(* isMostlyPrintable), the local fetch (fetchLocalLLDP), the three         *)
(* variants of the remote fetch (fetchRemoteLLDP: six-label completion,    *)
(* capabilities-triggered completion, index grouping by identifier part)   *)
(* and the polling loop of main.                                           *)
(*                                                                         *)
(* Go strings are byte sequences: a string is modelled as the sequence of  *)
(* its byte codes, so that prefix tests, splitting, hex encoding and       *)
(* decimal formatting are computed as the code computes them.  Labels that *)
(* are only ever used as map keys stay TLA+ strings.                       *)
(***************************************************************************)
EXTENDS Integers, Sequences, FiniteSets, TLC

VARIABLES
    pdu, decoded, dpc,                               \* the value decoder
    resp, lpos, lresult, lpc,                        \* fetchLocalLLDP
    variant, walk, pos, results, current, rpc,       \* fetchRemoteLLDP, completion-driven
    iwalk, ipos, iresult, written, ipc,              \* fetchRemoteLLDP + writeBatchCSV, index variant
    records, ri, allLocalInfo, allRemoteInfo, polled, mpc   \* main

decVars  == <<pdu, decoded, dpc>>
locVars  == <<resp, lpos, lresult, lpc>>
remVars  == <<variant, walk, pos, results, current, rpc>>
idxVars  == <<iwalk, ipos, iresult, written, ipc>>
mainVars == <<records, ri, allLocalInfo, allRemoteInfo, polled, mpc>>
vars     == <<decVars, locVars, remVars, idxVars, mainVars>>

(***************************************************************************)
(* Bounds of the model.                                                    *)
(***************************************************************************)
MaxPayloadLen == 20
MaxLocalCells == 2
MaxNeighbors  == 2
MaxCycles     == 2
MaxRows       == 3
MaxRecords    == 3

(***************************************************************************)
(* Strings as byte sequences.                                              *)
(***************************************************************************)
RECURSIVE Digits(_)
\* strconv of a natural number: its decimal digits, most significant first
Digits(n) == IF n < 10 THEN <<48 + n>> ELSE Digits(n \div 10) \o <<48 + (n % 10)>>

\* fmt.Sprintf("%v", i) of an integer
FormatInt(i) == IF i < 0 THEN <<45>> \o Digits(0 - i) ELSE Digits(i)

RECURSIVE OidStr(_)
\* the textual form of an object identifier: a dot before every component
OidStr(oid) ==
    IF oid = << >> THEN << >>
    ELSE OidStr(SubSeq(oid, 1, Len(oid) - 1)) \o <<46>> \o Digits(oid[Len(oid)])

\* strings.HasPrefix
HasPrefix(s, prefix) ==
    /\ Len(prefix) <= Len(s)
    /\ SubSeq(s, 1, Len(prefix)) = prefix

RECURSIVE SplitDot(_)
\* strings.Split(s, "."): the fields between dots, empty fields included
SplitDot(s) ==
    IF \A k \in 1..Len(s) : s[k] # 46 THEN <<s>>
    ELSE LET k == CHOOSE j \in 1..Len(s) :
                     /\ s[j] = 46
                     /\ \A h \in (j + 1)..Len(s) : s[h] # 46
         IN  SplitDot(SubSeq(s, 1, k - 1)) \o <<SubSeq(s, k + 1, Len(s))>>

parseOID(oid) == SplitDot(oid)

\* hex digit of a nibble, lowercase ("0123456789abcdef")
HexDigit(d) == IF d < 10 THEN 48 + d ELSE 87 + d

RECURSIVE hexEncode(_)
\* hex.EncodeToString: two lowercase hex digits per byte, no separator
hexEncode(b) ==
    IF b = << >> THEN << >>
    ELSE <<HexDigit(b[1] \div 16), HexDigit(b[1] % 16)>> \o hexEncode(Tail(b))

\* the literal "<nil>"
NilText == <<60, 110, 105, 108, 62>>

(***************************************************************************)
(* Maps (Go map[K]V) as functions with a finite domain.                    *)
(***************************************************************************)
EmptyMap == [k \in {} |-> << >>]
MapSet(m, key, val) == [k \in (DOMAIN m) \cup {key} |-> IF k = key THEN val ELSE m[k]]

(***************************************************************************)
(* A gosnmp.SnmpPDU: Name, Type and Value.  Value is an interface: IsNil   *)
(* says it is nil, otherwise Bytes holds a []byte and Int an integer.      *)
(***************************************************************************)
Pdu(name, type, isNil, bytes, int) ==
    [Name |-> name, Type |-> type, IsNil |-> isNil, Bytes |-> bytes, Int |-> int]
OctetPdu(name, bytes) == Pdu(name, "OctetString", FALSE, bytes, 0)
IntPdu(name, i)       == Pdu(name, "Integer", FALSE, << >>, i)
NilPdu(name, type)    == Pdu(name, type, TRUE, << >>, 0)

(***************************************************************************)
(* The value decoder of src/main.go.                                       *)
(***************************************************************************)
\* a byte the heuristic counts as non-printable
NonPrintable(b) == (b < 32 \/ b > 126) /\ b # 10 /\ b # 13

nonPrintableCount(data) == Cardinality({k \in 1..Len(data) : NonPrintable(data[k])})

\* return nonPrintableCount < len(data)/10   (integer division)
isMostlyPrintable(data) == nonPrintableCount(data) < Len(data) \div 10

Returned(s) == [panic |-> FALSE, str |-> s]
Panicked    == [panic |-> TRUE, str |-> << >>]

\* variable.Value.([]byte) panics on a nil interface; %v of nil prints <nil>
parseSNMPVariable(v) ==
    IF v.Type = "OctetString"
    THEN IF v.IsNil THEN Panicked
         ELSE IF isMostlyPrintable(v.Bytes) THEN Returned(v.Bytes)
         ELSE Returned(hexEncode(v.Bytes))
    ELSE IF v.IsNil THEN Returned(NilText)
         ELSE Returned(FormatInt(v.Int))

(***************************************************************************)
(* Inputs of the decoder: payloads of k printable bytes p and n            *)
(* non-printable bytes q, in either order, of total length at most         *)
(* MaxPayloadLen; integers; absent values of every wire type.              *)
(***************************************************************************)
Rep(b, n) == [k \in 1..n |-> b]
PrintableBytes    == {32, 65, 126, 10, 13}
NonPrintableBytes == {0, 31, 127, 255}
Payloads ==
    { IF front THEN Rep(p, k) \o Rep(q, n) ELSE Rep(q, n) \o Rep(p, k) :
        <<k, n, p, q, front>> \in
            { t \in (0..MaxPayloadLen) \X (0..MaxPayloadLen) \X PrintableBytes
                      \X NonPrintableBytes \X BOOLEAN : t[1] + t[2] <= MaxPayloadLen } }
WireTypes == {"OctetString", "Integer", "Null", "NoSuchInstance"}
DecoderInputs ==
    { OctetPdu(<< >>, b) : b \in Payloads }
      \cup { IntPdu(<< >>, i) : i \in {-7, 0, 42} }
      \cup { NilPdu(<< >>, t) : t \in WireTypes }

NoPdu == NilPdu(<< >>, "Null")

DecIdle ==
    /\ pdu = NoPdu
    /\ decoded = Panicked
    /\ dpc = "idle"
LocIdle ==
    /\ resp = << >>
    /\ lpos = 0
    /\ lresult = EmptyMap
    /\ lpc = "idle"
RemIdle ==
    /\ variant = "none"
    /\ walk = << >>
    /\ pos = 0
    /\ results = << >>
    /\ current = EmptyMap
    /\ rpc = "idle"
IdxIdle ==
    /\ iwalk = << >>
    /\ ipos = 0
    /\ iresult = EmptyMap
    /\ written = << >>
    /\ ipc = "idle"
MainIdle ==
    /\ records = << >>
    /\ ri = 0
    /\ allLocalInfo = EmptyMap
    /\ allRemoteInfo = EmptyMap
    /\ polled = << >>
    /\ mpc = "idle"

InitDecode ==
    /\ pdu \in DecoderInputs
    /\ decoded = Panicked
    /\ dpc = "call"
    /\ LocIdle /\ RemIdle /\ IdxIdle /\ MainIdle

\* one call of parseSNMPVariable
Decode ==
    /\ dpc = "call"
    /\ decoded' = parseSNMPVariable(pdu)
    /\ dpc' = "done"
    /\ UNCHANGED <<pdu, locVars, remVars, idxVars, mainVars>>

NextDecode == Decode
SpecDecode == InitDecode /\ [][NextDecode]_vars

(***************************************************************************)
(* C6: for every non-empty byte-string payload P with n non-printable      *)
(* bytes, parseSNMPVariable returns P as raw text exactly when             *)
(* 10 * n < len(P), and otherwise the lowercase hex encoding of P, of      *)
(* length 2 * len(P).                                                      *)
(***************************************************************************)
C6_RatioThreshold ==
    (dpc = "done" /\ pdu.Type = "OctetString" /\ ~pdu.IsNil /\ pdu.Bytes # << >>)
        => IF 10 * nonPrintableCount(pdu.Bytes) < Len(pdu.Bytes)
           THEN decoded = Returned(pdu.Bytes)
           ELSE /\ decoded = Returned(hexEncode(pdu.Bytes))
                /\ Len(decoded.str) = 2 * Len(pdu.Bytes)

(***************************************************************************)
(* C7: parseSNMPVariable of a cell whose value is absent returns the       *)
(* literal "<nil>" and does not fail, whatever the wire type.              *)
(***************************************************************************)
C7_NilIsSentinel ==
    (dpc = "done" /\ pdu.IsNil) => decoded = Returned(NilText)

(***************************************************************************)
(* The identifiers of src/main.go (first program).                         *)
(***************************************************************************)
lldpLocChassisID   == OidStr(<<1, 0, 8802, 1, 1, 2, 1, 3, 2, 0>>)
lldpLocSysName     == OidStr(<<1, 0, 8802, 1, 1, 2, 1, 3, 3, 0>>)
lldpLocPortDesc    == OidStr(<<1, 0, 8802, 1, 1, 2, 1, 3, 7, 1, 3>>)
sysDesc            == OidStr(<<1, 3, 6, 1, 2, 1, 1, 1, 0>>)
sysVendor          == OidStr(<<1, 3, 6, 1, 4, 1, 8072, 3, 2, 10>>)
lldpRemChassisID   == OidStr(<<1, 0, 8802, 1, 1, 2, 1, 4, 1, 1, 5>>)
lldpRemPortID      == OidStr(<<1, 0, 8802, 1, 1, 2, 1, 4, 1, 1, 7>>)
lldpRemPortDesc    == OidStr(<<1, 0, 8802, 1, 1, 2, 1, 4, 1, 1, 8>>)
lldpRemSysName     == OidStr(<<1, 0, 8802, 1, 1, 2, 1, 4, 1, 1, 9>>)
lldpRemSysCap      == OidStr(<<1, 0, 8802, 1, 1, 2, 1, 4, 1, 1, 12>>)
\* an identifier under the walked root, as a misplaced binding would be
lldpRemMgmtAddressUnderRoot == OidStr(<<1, 0, 8802, 1, 1, 2, 1, 4, 1, 1, 4>>)
lldpRemMgmtAddress == OidStr(<<1, 0, 8802, 1, 1, 2, 1, 4, 2, 1, 4>>)
lldpRemTable       == OidStr(<<1, 0, 8802, 1, 1, 2, 1, 4, 1>>)

(***************************************************************************)
(* fetchLocalLLDP of src/main.go.                                          *)
(***************************************************************************)
\* the switch with strings.HasPrefix in place of equality
localLabelOfPrefix(name) ==
    IF HasPrefix(name, lldpLocChassisID) THEN "Local Chassis ID"
    ELSE IF HasPrefix(name, lldpLocSysName) THEN "Local System Name"
    ELSE IF HasPrefix(name, lldpLocPortDesc) THEN "Local Port Description"
    ELSE IF HasPrefix(name, sysDesc) THEN "System Description"
    ELSE IF HasPrefix(name, sysVendor) THEN "System Vendor"
    ELSE "none"

\* switch variable.Name: the label a cell's identifier is bound to
localLabelOf(name) ==
    IF name = lldpLocChassisID THEN "Local Chassis ID"
    ELSE IF name = lldpLocSysName THEN "Local System Name"
    ELSE IF name = lldpLocPortDesc THEN "Local Port Description"
    ELSE IF name = sysDesc THEN "System Description"
    ELSE IF name = sysVendor THEN "System Vendor"
    ELSE "none"

\* the body of the loop over localInfo.Variables (lines 109-121)
localStore(result, variable) ==
    LET value == parseSNMPVariable(variable)
        label == localLabelOf(variable.Name)
    IN  IF label = "none" THEN result ELSE MapSet(result, label, value.str)

RECURSIVE fetchLocalLLDP(_)
\* the record fetchLocalLLDP returns for a response (lines 107-123)
fetchLocalLLDP(cells) ==
    IF cells = << >> THEN EmptyMap
    ELSE localStore(fetchLocalLLDP(SubSeq(cells, 1, Len(cells) - 1)), cells[Len(cells)])

\* what snmp.Get can answer: for each cell a requested identifier, an
\* instance below a requested column or a foreign identifier, carrying a
\* byte string, an integer or noSuchInstance (a nil value)
LocalNames ==
    {lldpLocChassisID, lldpLocSysName, lldpLocPortDesc, sysDesc, sysVendor,
     lldpLocPortDesc \o <<46, 49>>, lldpRemTable}
LocalCells ==
    UNION { {OctetPdu(n, <<115, 119>>), IntPdu(n, 42), NilPdu(n, "NoSuchInstance")} :
            n \in LocalNames }
RECURSIVE SeqsUpTo(_, _)
SeqsUpTo(S, n) ==
    IF n = 0 THEN {<< >>}
    ELSE LET shorter == SeqsUpTo(S, n - 1)
         IN  shorter \cup {Append(q, x) : q \in {r \in shorter : Len(r) = n - 1}, x \in S}
LocalResponses == SeqsUpTo(LocalCells, MaxLocalCells)

InitLocal ==
    /\ resp = << >>
    /\ lpos = 0
    /\ lresult = EmptyMap
    /\ lpc = "get"
    /\ DecIdle /\ RemIdle /\ IdxIdle /\ MainIdle

\* localInfo, err := snmp.Get(localOids), err == nil
LocalGet ==
    /\ lpc = "get"
    /\ \E r \in LocalResponses : resp' = r
    /\ lpos' = 0
    /\ lresult' = EmptyMap
    /\ lpc' = "loop"
    /\ UNCHANGED <<decVars, remVars, idxVars, mainVars>>

\* snmp.Get failed: return nil, err
LocalGetError ==
    /\ lpc = "get"
    /\ lpc' = "error"
    /\ UNCHANGED <<resp, lpos, lresult, decVars, remVars, idxVars, mainVars>>

\* one iteration of the loop over localInfo.Variables
LocalStep ==
    /\ lpc = "loop"
    /\ lpos < Len(resp)
    /\ LET variable == resp[lpos + 1]
       IN  IF parseSNMPVariable(variable).panic
           THEN /\ lpc' = "panic"
                /\ UNCHANGED <<lpos, lresult>>
           ELSE /\ lpos' = lpos + 1
                /\ lresult' = localStore(lresult, variable)
                /\ lpc' = "loop"
    /\ UNCHANGED <<resp, decVars, remVars, idxVars, mainVars>>

\* return result, nil
LocalReturn ==
    /\ lpc = "loop"
    /\ lpos = Len(resp)
    /\ lpc' = "done"
    /\ UNCHANGED <<resp, lpos, lresult, decVars, remVars, idxVars, mainVars>>

NextLocal == LocalGet \/ LocalGetError \/ LocalStep \/ LocalReturn
SpecLocal == InitLocal /\ [][NextLocal]_vars

\* the bindings the claim speaks of: label and identifier
LocalBindings ==
    { <<"Local Chassis ID", lldpLocChassisID>>,
      <<"Local System Name", lldpLocSysName>>,
      <<"Local Port Description", lldpLocPortDesc>>,
      <<"System Description", sysDesc>>,
      <<"System Vendor", sysVendor>> }
LastAt(cells, name) ==
    CHOOSE k \in 1..Len(cells) :
        /\ cells[k].Name = name
        /\ \A h \in (k + 1)..Len(cells) : cells[h].Name # name

(***************************************************************************)
(* C9: the record fetchLocalLLDP returns contains a label exactly when     *)
(* some response cell's identifier equals the identifier bound to the      *)
(* label, with the decoded value of the last such cell; no other cell adds *)
(* anything, and a label whose identifier has no cell is absent.           *)
(***************************************************************************)
C9_LocalExactMatch ==
    lpc = "done" =>
        /\ DOMAIN lresult \subseteq {b[1] : b \in LocalBindings}
        /\ \A b \in LocalBindings :
              /\ b[1] \in DOMAIN lresult <=> \E k \in 1..Len(resp) : resp[k].Name = b[2]
              /\ b[1] \in DOMAIN lresult =>
                    lresult[b[1]] = parseSNMPVariable(resp[LastAt(resp, b[2])]).str

\* two cells answer for the system name with different values, and the
\* record holds the later one only
C9_Witness ==
    /\ lpc = "done"
    /\ Len(resp) = 2
    /\ resp[1].Name = lldpLocSysName
    /\ resp[2].Name = lldpLocSysName
    /\ resp[1].Type = "OctetString"
    /\ resp[2].Type = "NoSuchInstance"
    /\ DOMAIN lresult = {"Local System Name"}
    /\ lresult["Local System Name"] = NilText

(***************************************************************************)
(* Identifiers read back as component sequences, and their order.          *)
(***************************************************************************)
RECURSIVE ParseNat(_)
ParseNat(d) ==
    IF d = << >> THEN 0
    ELSE 10 * ParseNat(SubSeq(d, 1, Len(d) - 1)) + (d[Len(d)] - 48)

\* the components of a textual identifier (the field before the first dot is empty)
OidOf(name) ==
    LET parts == SplitDot(name)
    IN  [k \in 1..(Len(parts) - 1) |-> ParseNat(parts[k + 1])]

RECURSIVE LexLess(_, _)
\* SNMP's order of identifiers: componentwise, a proper prefix first
LexLess(a, b) ==
    IF b = << >> THEN FALSE
    ELSE IF a = << >> THEN TRUE
    ELSE IF a[1] # b[1] THEN a[1] < b[1]
    ELSE LexLess(Tail(a), Tail(b))

IsAscending(cells) ==
    \A k \in 1..(Len(cells) - 1) : LexLess(OidOf(cells[k].Name), OidOf(cells[k + 1].Name))

(***************************************************************************)
(* The remote table.  A cell of lldpRemTable is named                      *)
(* lldpRemEntry.column.timeMark.localPortNum.remIndex; a cell of the       *)
(* management address table lies under lldpRemMgmtAddress.                 *)
(***************************************************************************)
RemoteLabels ==
    {"Remote Chassis ID", "Remote Port ID", "Remote Port Description",
     "Remote System Name", "Remote System Capabilities", "Remote Management Address"}

\* the column prefix bound to a label (claim side: the table of lines 26-31)
PrefixOf(label) ==
    CASE label = "Remote Chassis ID"          -> OidStr(<<1, 0, 8802, 1, 1, 2, 1, 4, 1, 1, 5>>)
      [] label = "Remote Port ID"             -> OidStr(<<1, 0, 8802, 1, 1, 2, 1, 4, 1, 1, 7>>)
      [] label = "Remote Port Description"    -> OidStr(<<1, 0, 8802, 1, 1, 2, 1, 4, 1, 1, 8>>)
      [] label = "Remote System Name"         -> OidStr(<<1, 0, 8802, 1, 1, 2, 1, 4, 1, 1, 9>>)
      [] label = "Remote System Capabilities" -> OidStr(<<1, 0, 8802, 1, 1, 2, 1, 4, 1, 1, 12>>)
      [] label = "Remote Management Address"  -> OidStr(<<1, 0, 8802, 1, 1, 2, 1, 4, 2, 1, 4>>)
      [] OTHER -> OidStr(<<1, 0, 8802, 1, 1, 2, 1, 4, 1, 1, 4>>)

\* the index suffix of neighbor j: timeMark 0, local port j, remote index 1
SuffixOfNeighbor(j) == <<0, j, 1>>

\* the cell of neighbor j under a label's column; "other" is column 4
\* (lldpRemChassisIdSubtype, an integer), which no variant recognizes
RemoteCell(label, j) ==
    LET name == PrefixOf(label) \o OidStr(SuffixOfNeighbor(j))
    IN  IF label = "other" THEN IntPdu(name, j)
        ELSE OctetPdu(name, <<Len(label) + 32, 45>> \o Digits(j))

\* the columns of the table in identifier order
ColumnOrder ==
    <<"other", "Remote Chassis ID", "Remote Port ID", "Remote Port Description",
      "Remote System Name", "Remote System Capabilities">>

\* which columns a neighbor has cells for
Profiles ==
    { {"other", "Remote Chassis ID", "Remote Port ID", "Remote Port Description",
       "Remote System Name", "Remote System Capabilities"},
      {"other", "Remote Chassis ID", "Remote Port ID", "Remote Port Description",
       "Remote System Name"},
      {"Remote Chassis ID", "Remote Port ID", "Remote Port Description",
       "Remote System Capabilities"},
      {"Remote System Capabilities"},
      {"Remote Chassis ID"},
      {"other"} }

RECURSIVE Flatten(_)
Flatten(ss) == IF ss = << >> THEN << >> ELSE Head(ss) \o Flatten(Tail(ss))

\* the walk of neighbors 1..Len(prof) in identifier order: column by column
ColumnMajor(prof) ==
    Flatten([c \in 1..Len(ColumnOrder) |->
        Flatten([j \in 1..Len(prof) |->
            IF ColumnOrder[c] \in prof[j] THEN <<RemoteCell(ColumnOrder[c], j)>> ELSE << >>])])

\* the same cells delivered row by row
RowMajor(prof) ==
    Flatten([j \in 1..Len(prof) |->
        Flatten([c \in 1..Len(ColumnOrder) |->
            IF ColumnOrder[c] \in prof[j] THEN <<RemoteCell(ColumnOrder[c], j)>> ELSE << >>])])

RemoteWalks ==
    UNION { {ColumnMajor(prof), RowMajor(prof)} : prof \in SeqsUpTo(Profiles, MaxNeighbors) }

(***************************************************************************)
(* fetchRemoteLLDP of src/main.go, first program: six required labels.     *)
(***************************************************************************)
\* the switch over strings.HasPrefix, first match wins
remoteLabelOf(name) ==
    IF HasPrefix(name, lldpRemChassisID) THEN "Remote Chassis ID"
    ELSE IF HasPrefix(name, lldpRemPortID) THEN "Remote Port ID"
    ELSE IF HasPrefix(name, lldpRemPortDesc) THEN "Remote Port Description"
    ELSE IF HasPrefix(name, lldpRemSysName) THEN "Remote System Name"
    ELSE IF HasPrefix(name, lldpRemSysCap) THEN "Remote System Capabilities"
    ELSE IF HasPrefix(name, lldpRemMgmtAddress) THEN "Remote Management Address"
    ELSE "none"

hasAllKeys(data) ==
    \A key \in {"Remote Chassis ID", "Remote Port ID", "Remote Port Description",
                "Remote System Name", "Remote System Capabilities",
                "Remote Management Address"} : key \in DOMAIN data

\* the body of the loop over remoteInfo (lines 137-158) on the pair of
\* results and current
remoteStore(st, variable) ==
    LET value   == parseSNMPVariable(variable)
        label   == remoteLabelOf(variable.Name)
        updated == IF label = "none" THEN st.current
                   ELSE MapSet(st.current, label, value.str)
    IN  IF hasAllKeys(updated)
        THEN [results |-> Append(st.results, updated), current |-> EmptyMap]
        ELSE [results |-> st.results, current |-> updated]

RECURSIVE remoteLoop(_)
remoteLoop(cells) ==
    IF cells = << >> THEN [results |-> << >>, current |-> EmptyMap]
    ELSE remoteStore(remoteLoop(SubSeq(cells, 1, Len(cells) - 1)), cells[Len(cells)])

\* the records fetchRemoteLLDP returns for a walk (lines 132-165)
fetchRemoteLLDP(cells) ==
    LET st == remoteLoop(cells)
    IN  IF Cardinality(DOMAIN st.current) > 0 THEN Append(st.results, st.current)
        ELSE st.results

InitRemote ==
    /\ variant \in {"six", "cap"}
    /\ walk \in RemoteWalks
    /\ pos = 0
    /\ results = << >>
    /\ current = EmptyMap
    /\ rpc = "loop"
    /\ DecIdle /\ LocIdle /\ IdxIdle /\ MainIdle

\* one iteration of the loop over remoteInfo (lines 136-159)
StepSix ==
    /\ variant = "six"
    /\ rpc = "loop"
    /\ pos < Len(walk)
    /\ LET variable == walk[pos + 1]
           st       == remoteStore([results |-> results, current |-> current], variable)
       IN  IF parseSNMPVariable(variable).panic
           THEN /\ rpc' = "panic"
                /\ UNCHANGED <<pos, results, current>>
           ELSE /\ pos' = pos + 1
                /\ rpc' = "loop"
                /\ results' = st.results
                /\ current' = st.current
    /\ UNCHANGED <<variant, walk, decVars, locVars, idxVars, mainVars>>

\* the end of the walk without the trailing append
FinishSixDrop ==
    /\ variant = "six"
    /\ rpc = "loop"
    /\ pos = Len(walk)
    /\ rpc' = "done"
    /\ UNCHANGED <<results, current, variant, walk, pos, decVars, locVars, idxVars, mainVars>>

\* lines 161-165: append the last set if it is not empty, and return
FinishSix ==
    /\ variant = "six"
    /\ rpc = "loop"
    /\ pos = Len(walk)
    /\ results' = IF Cardinality(DOMAIN current) > 0 THEN Append(results, current)
                  ELSE results
    /\ rpc' = "done"
    /\ UNCHANGED <<current, variant, walk, pos, decVars, locVars, idxVars, mainVars>>

(***************************************************************************)
(* fetchRemoteLLDP of src/main.go, second program: a record is emitted     *)
(* when the capabilities cell is seen.                                     *)
(***************************************************************************)
\* lines 402-409: no printability test, %v for the other types
parseSNMPVariableCap(v) ==
    IF v.Type = "OctetString"
    THEN IF v.IsNil THEN Panicked ELSE Returned(v.Bytes)
    ELSE IF v.IsNil THEN Returned(NilText)
         ELSE Returned(FormatInt(v.Int))

\* the switch of lines 384-397
remoteLabelOfCap(name) ==
    IF HasPrefix(name, lldpRemChassisID) THEN "Remote Chassis ID"
    ELSE IF HasPrefix(name, lldpRemPortID) THEN "Remote Port ID"
    ELSE IF HasPrefix(name, lldpRemPortDesc) THEN "Remote Port Description"
    ELSE IF HasPrefix(name, lldpRemSysName) THEN "Remote System Name"
    ELSE IF HasPrefix(name, lldpRemSysCap) THEN "Remote System Capabilities"
    ELSE "none"

\* one iteration of the loop of lines 382-398
StepCap ==
    /\ variant = "cap"
    /\ rpc = "loop"
    /\ pos < Len(walk)
    /\ LET variable == walk[pos + 1]
           value    == parseSNMPVariableCap(variable)
           label    == remoteLabelOfCap(variable.Name)
           updated  == IF label = "none" THEN current
                       ELSE MapSet(current, label, value.str)
       IN  IF value.panic
           THEN /\ rpc' = "panic"
                /\ UNCHANGED <<pos, results, current>>
           ELSE /\ pos' = pos + 1
                /\ rpc' = "loop"
                /\ IF label = "Remote System Capabilities"
                   THEN /\ results' = Append(results, updated)
                        /\ current' = EmptyMap
                   ELSE /\ results' = results
                        /\ current' = updated
    /\ UNCHANGED <<variant, walk, decVars, locVars, idxVars, mainVars>>

\* line 399: return results, nil
FinishCap ==
    /\ variant = "cap"
    /\ rpc = "loop"
    /\ pos = Len(walk)
    /\ rpc' = "done"
    /\ UNCHANGED <<results, current, variant, walk, pos, decVars, locVars, idxVars, mainVars>>

NextRemote == StepSix \/ FinishSix \/ StepCap \/ FinishCap
SpecRemote == InitRemote /\ [][NextRemote]_vars

(***************************************************************************)
(* What the claims about the completion-driven variants speak of: the      *)
(* column and the index suffix of a cell, read from its identifier.        *)
(***************************************************************************)
LabelsOf(v) ==
    IF v = "six" THEN RemoteLabels ELSE RemoteLabels \ {"Remote Management Address"}

DecodeBy(v, cell) ==
    IF v = "six" THEN parseSNMPVariable(cell).str ELSE parseSNMPVariableCap(cell).str

\* the label whose column identifier is a component prefix of the cell's identifier
CellLabel(cell) ==
    IF \E l \in RemoteLabels : HasPrefix(cell.Name, PrefixOf(l) \o <<46>>)
    THEN CHOOSE l \in RemoteLabels : HasPrefix(cell.Name, PrefixOf(l) \o <<46>>)
    ELSE "none"

\* the components after the column identifier
CellSuffix(cell) ==
    LET oid == OidOf(cell.Name)
        col == OidOf(PrefixOf(CellLabel(cell)))
    IN  SubSeq(oid, Len(col) + 1, Len(oid))

RecognizedAt(v) == {k \in 1..Len(walk) : CellLabel(walk[k]) \in LabelsOf(v)}
Suffixes(v)     == {CellSuffix(walk[k]) : k \in RecognizedAt(v)}
CellsOf(v, s)   == {k \in RecognizedAt(v) : CellSuffix(walk[k]) = s}

\* record r holds the value of cell k under the cell's label
RecordHolds(v, r, k) ==
    /\ CellLabel(walk[k]) \in DOMAIN r
    /\ r[CellLabel(walk[k])] = DecodeBy(v, walk[k])

(***************************************************************************)
(* C1: for a walk in ascending identifier order with cells of two or more  *)
(* neighbors, no neighbor's cells are split across two emitted records:    *)
(* every emitted record holds values of cells of one single index suffix,  *)
(* and the recognized cells of one index suffix are held by one record     *)
(* only (both completion-driven variants).                                 *)
(***************************************************************************)
C1_NeighborNeverSplit ==
    (rpc = "done" /\ IsAscending(walk) /\ Cardinality(Suffixes(variant)) >= 2) =>
        /\ \A i \in 1..Len(results) :
              \E s \in Suffixes(variant) :
                 \A l \in DOMAIN results[i] :
                    \E k \in CellsOf(variant, s) :
                       CellLabel(walk[k]) = l /\ RecordHolds(variant, results[i], k)
        /\ \A s \in Suffixes(variant) :
              Cardinality({i \in 1..Len(results) :
                              \E k \in CellsOf(variant, s) :
                                 RecordHolds(variant, results[i], k)}) <= 1

(***************************************************************************)
(* C3: a neighbor that contributes at least one recognized cell but lacks  *)
(* some other attribute yields exactly one emitted record, not zero, and   *)
(* that record is not shared with another neighbor (both variants).        *)
(***************************************************************************)
C3_PartialNeighborOneRecord ==
    rpc = "done" =>
        \A s \in Suffixes(variant) :
           LET holders == {i \in 1..Len(results) :
                              \E k \in CellsOf(variant, s) : RecordHolds(variant, results[i], k)}
           IN  {CellLabel(walk[k]) : k \in CellsOf(variant, s)} # LabelsOf(variant) =>
                  /\ Cardinality(holders) = 1
                  /\ \A i \in holders : \A s2 \in Suffixes(variant) \ {s} :
                        \A k \in CellsOf(variant, s2) : ~RecordHolds(variant, results[i], k)

LastMatching(cells, prefix) ==
    CHOOSE k \in 1..Len(cells) :
        /\ HasPrefix(cells[k].Name, prefix)
        /\ \A h \in (k + 1)..Len(cells) : ~HasPrefix(cells[h].Name, prefix)

(***************************************************************************)
(* C10: in the six-label variant, when every cell of the walk lies under   *)
(* lldpRemTable, no cell matches the lldpRemMgmtAddress prefix, hasAllKeys *)
(* is never true during the walk, and at most one record is returned,      *)
(* holding for each label the value of the last matching cell.             *)
(***************************************************************************)
C10_SixLabelAtMostOneRecord ==
    (variant = "six" /\ \A k \in 1..Len(walk) : HasPrefix(walk[k].Name, lldpRemTable \o <<46>>)) =>
        /\ \A k \in 1..Len(walk) : ~HasPrefix(walk[k].Name, lldpRemMgmtAddress)
        /\ ~hasAllKeys(current)
        /\ Len(results) <= 1
        /\ rpc = "done" =>
              LET matched == {l \in RemoteLabels :
                                 \E k \in 1..Len(walk) : HasPrefix(walk[k].Name, PrefixOf(l))}
              IN  /\ Len(results) = 1 <=> matched # {}
                  /\ Len(results) = 1 =>
                        /\ DOMAIN results[1] = matched
                        /\ \A l \in matched :
                              results[1][l] =
                                 parseSNMPVariable(walk[LastMatching(walk, PrefixOf(l))]).str

\* two fully populated neighbors in walk order, and a single record that
\* carries the second neighbor's chassis identifier
C10_Witness ==
    /\ variant = "six"
    /\ rpc = "done"
    /\ IsAscending(walk)
    /\ Cardinality({CellLabel(walk[k]) : k \in CellsOf("six", SuffixOfNeighbor(1))}) = 5
    /\ Cardinality({CellLabel(walk[k]) : k \in CellsOf("six", SuffixOfNeighbor(2))}) = 5
    /\ Len(results) = 1
    /\ results[1]["Remote Chassis ID"] =
          parseSNMPVariable(RemoteCell("Remote Chassis ID", 2)).str

(***************************************************************************)
(* The six-label variant on column cycles: each cycle carries one cell for *)
(* each of the six labels (the management address cell under its own       *)
(* table), in one of several cell orders; the last cycle may be cut short. *)
(***************************************************************************)
CycleOrders ==
    { <<"Remote Chassis ID", "Remote Port ID", "Remote Port Description",
        "Remote System Name", "Remote System Capabilities", "Remote Management Address">>,
      <<"Remote Management Address", "Remote System Capabilities", "Remote System Name",
        "Remote Port Description", "Remote Port ID", "Remote Chassis ID">>,
      <<"Remote System Capabilities", "Remote Chassis ID", "Remote Management Address",
        "Remote Port ID", "Remote System Name", "Remote Port Description">> }

CycleWalks ==
    UNION { { Flatten([i \in 1..Len(orders) |->
                          [k \in 1..Len(orders[i]) |-> RemoteCell(orders[i][k], i)]])
                 \o [k \in 1..m |-> RemoteCell(last[k], Len(orders) + 1)] :
              last \in CycleOrders, m \in 0..(Cardinality(RemoteLabels) - 1) } :
            orders \in SeqsUpTo(CycleOrders, MaxCycles) }

InitCycles ==
    /\ variant = "six"
    /\ walk \in CycleWalks
    /\ pos = 0
    /\ results = << >>
    /\ current = EmptyMap
    /\ rpc = "loop"
    /\ DecIdle /\ LocIdle /\ IdxIdle /\ MainIdle

NextSix == StepSix \/ FinishSix
SpecCycles == InitCycles /\ [][NextSix]_vars

CycleLen == Cardinality(RemoteLabels)
FullCycles(cells) == Len(cells) \div CycleLen
TailLen(cells) == Len(cells) % CycleLen
CycleAt(n) == ((n - 1) * CycleLen + 1)..(n * CycleLen)
TailAt(cells) == (FullCycles(cells) * CycleLen + 1)..Len(cells)

\* N fully populated cycles, then a cut-short cycle of distinct recognized cells
IsCycleShaped(cells) ==
    /\ \A n \in 1..FullCycles(cells) : {CellLabel(cells[k]) : k \in CycleAt(n)} = RemoteLabels
    /\ \A k \in TailAt(cells) : CellLabel(cells[k]) \in RemoteLabels
    /\ \A k, h \in TailAt(cells) : CellLabel(cells[k]) = CellLabel(cells[h]) => k = h

(***************************************************************************)
(* C2: on N consecutive fully populated column cycles the six-label        *)
(* variant emits exactly N complete records in encounter order, and a      *)
(* final cycle cut short after at least one recognized cell is emitted as  *)
(* one more, partial, record with fewer than six labels.                   *)
(***************************************************************************)
C2_CyclesEmitted ==
    (rpc = "done" /\ IsCycleShaped(walk)) =>
        /\ Len(results) = FullCycles(walk) + (IF TailLen(walk) > 0 THEN 1 ELSE 0)
        /\ \A n \in 1..FullCycles(walk) :
              /\ DOMAIN results[n] = RemoteLabels
              /\ \A k \in CycleAt(n) : RecordHolds("six", results[n], k)
        /\ TailLen(walk) > 0 =>
              LET last == results[FullCycles(walk) + 1]
              IN  /\ DOMAIN last = {CellLabel(walk[k]) : k \in TailAt(walk)}
                  /\ Cardinality(DOMAIN last) < CycleLen
                  /\ \A k \in TailAt(walk) : RecordHolds("six", last, k)

\* two full cycles and a third cut short after three cells: three records
C2_Witness ==
    /\ rpc = "done"
    /\ FullCycles(walk) = 2
    /\ TailLen(walk) = 3
    /\ Len(results) = 3
    /\ hasAllKeys(results[1]) /\ hasAllKeys(results[2])
    /\ ~hasAllKeys(results[3])

(***************************************************************************)
(* The index variant (src/unnamed/part_000): fetchRemoteLLDP groups the    *)
(* cells in a map keyed by a field of the identifier, and writeBatchCSV    *)
(* ranges over that map.                                                   *)
(***************************************************************************)
\* lines 123-130
parseSNMPVariableIdx(v) ==
    IF v.Type = "OctetString"
    THEN IF v.IsNil THEN Panicked ELSE Returned(v.Bytes)
    ELSE IF v.IsNil THEN Returned(NilText)
         ELSE Returned(FormatInt(v.Int))

\* id := oidParts[len(oidParts)-3]   (Go indexes from 0)
rowId(oidParts) == oidParts[Len(oidParts) - 2]

\* subOid := oidParts[len(oidParts)-2]
rowSubOid(oidParts) == oidParts[Len(oidParts) - 1]

IdxColumns  == {"Remote Chassis ID", "Remote System Capabilities"}
IdxSuffixes == {<<0, 1, 1>>, <<0, 2, 1>>, <<7, 1, 1>>}
IdxCell(label, suffix) ==
    OctetPdu(PrefixOf(label) \o OidStr(suffix),
             <<Len(label) + 32, 45>> \o Digits(suffix[1]) \o Digits(suffix[2]))
IdxCells == {IdxCell(l, x) : l \in IdxColumns, x \in IdxSuffixes}
IdxWalks == SeqsUpTo(IdxCells, MaxRows)

InitIdx ==
    /\ iwalk \in IdxWalks
    /\ ipos = 0
    /\ iresult = EmptyMap
    /\ written = << >>
    /\ ipc = "loop"
    /\ DecIdle /\ LocIdle /\ RemIdle /\ MainIdle

\* one iteration of the loop of lines 107-119
IdxStep ==
    /\ ipc = "loop"
    /\ ipos < Len(iwalk)
    /\ LET variable == iwalk[ipos + 1]
           oidParts == parseOID(variable.Name)
           value    == parseSNMPVariableIdx(variable)
       IN  IF Len(oidParts) < 3
           THEN /\ ipos' = ipos + 1
                /\ UNCHANGED <<iresult, ipc>>
           ELSE IF value.panic
           THEN /\ ipc' = "panic"
                /\ UNCHANGED <<ipos, iresult>>
           ELSE LET id     == rowId(oidParts)
                    subOid == rowSubOid(oidParts)
                    row    == IF id \in DOMAIN iresult THEN iresult[id] ELSE EmptyMap
                IN  /\ iresult' = MapSet(iresult, id, MapSet(row, subOid, value.str))
                    /\ ipos' = ipos + 1
                    /\ ipc' = "loop"
    /\ UNCHANGED <<iwalk, written, decVars, locVars, remVars, mainVars>>

\* line 120: return result, nil; the map is handed to writeBatchCSV
IdxReturn ==
    /\ ipc = "loop"
    /\ ipos = Len(iwalk)
    /\ ipc' = "write"
    /\ UNCHANGED <<iwalk, ipos, iresult, written, decVars, locVars, remVars, mainVars>>

WrittenOf(id) == {written[k][2] : k \in {h \in 1..Len(written) : written[h][1] = id}}
Started       == {written[k][1] : k \in 1..Len(written)}
Unfinished    == {id \in Started : WrittenOf(id) # DOMAIN iresult[id]}

\* lines 171-175: one writer.Write of the nested range loops.  The order of
\* a range over a Go map is unspecified: any key not yet visited may come
\* next; the inner loop finishes one record before the outer loop goes on.
WriteRow ==
    /\ ipc = "write"
    /\ \E id \in DOMAIN iresult :
          /\ IF Unfinished # {} THEN id \in Unfinished ELSE id \notin Started
          /\ \E oid \in (DOMAIN iresult[id]) \ WrittenOf(id) :
                written' = Append(written, <<id, oid, iresult[id][oid]>>)
    /\ UNCHANGED <<iwalk, ipos, iresult, ipc, decVars, locVars, remVars, mainVars>>

\* line 177: return nil
WriteDone ==
    /\ ipc = "write"
    /\ Started = DOMAIN iresult
    /\ Unfinished = {}
    /\ ipc' = "done"
    /\ UNCHANGED <<iwalk, ipos, iresult, written, decVars, locVars, remVars, mainVars>>

NextIdx == IdxStep \/ IdxReturn \/ WriteRow \/ WriteDone
SpecIdx == InitIdx /\ [][NextIdx]_vars

RECURSIVE Dedup(_)
\* a sequence with every repeated element dropped after its first occurrence
Dedup(q) ==
    IF q = << >> THEN << >>
    ELSE LET front == Dedup(SubSeq(q, 1, Len(q) - 1))
         IN  IF \E k \in 1..Len(front) : front[k] = q[Len(q)] THEN front
             ELSE Append(front, q[Len(q)])

\* the row identities of the walk, in the order of first encounter
FirstEncounter(cells) == Dedup([k \in 1..Len(cells) |-> rowId(parseOID(cells[k].Name))])

(***************************************************************************)
(* C4: in the index variant the order in which the remote records are      *)
(* emitted is fixed by the cell sequence: it is the order in which each    *)
(* row identity was first encountered in the walk.                         *)
(***************************************************************************)
C4_EmissionOrderIsFirstEncounter ==
    ipc = "done" => Dedup([k \in 1..Len(written) |-> written[k][1]]) = FirstEncounter(iwalk)

\* the index suffix and the column of a cell of the remote table: the
\* components after lldpRemEntry.column, and the column's number as text
IdxSuffixOf(cell) == LET oid == OidOf(cell.Name) IN SubSeq(oid, Len(OidOf(lldpRemTable)) + 3, Len(oid))
IdxColumnOf(cell) == Digits(OidOf(cell.Name)[Len(OidOf(lldpRemTable)) + 2])

(***************************************************************************)
(* C5: for a walk whose identifiers span exactly K distinct index          *)
(* suffixes the index variant returns exactly K records, and each record   *)
(* holds one entry per column whose cell was present for that suffix and   *)
(* no entry for any other column.  The entries are compared by number and  *)
(* by value (the last cell of each column), whatever their keys are.       *)
(***************************************************************************)
C5_OneRecordPerSuffix ==
    ipc \in {"write", "done"} =>
        LET suffixes == {IdxSuffixOf(iwalk[k]) : k \in 1..Len(iwalk)}
            cellsAt(x) == {k \in 1..Len(iwalk) : IdxSuffixOf(iwalk[k]) = x}
            lastAt(x) == {k \in cellsAt(x) :
                             \A h \in cellsAt(x) :
                                IdxColumnOf(iwalk[h]) = IdxColumnOf(iwalk[k]) => h <= k}
            values(x) == {parseSNMPVariableIdx(iwalk[k]).str : k \in lastAt(x)}
        IN  /\ Cardinality(DOMAIN iresult) = Cardinality(suffixes)
            /\ \A x \in suffixes :
                  \E id \in DOMAIN iresult :
                     /\ Cardinality(DOMAIN iresult[id]) = Cardinality(lastAt(x))
                     /\ {iresult[id][c] : c \in DOMAIN iresult[id]} = values(x)

(***************************************************************************)
(* main of src/main.go: the polling loop over the input records.           *)
(***************************************************************************)
\* the records readCSV can return: target and community, or one field only
InputRecords == {<<"sw1", "public">>, <<"sw2", "public">>, <<"sw1">>}
\* what a reachable target answers to the get and to the walk
MainResponses ==
    { <<OctetPdu(lldpLocSysName, <<115, 119>>)>>,
      <<NilPdu(lldpLocChassisID, "NoSuchInstance"), IntPdu(sysDesc, 42)>> }
MainWalks ==
    { << >>, ColumnMajor(<<{"Remote Chassis ID", "Remote System Capabilities"}>>) }

InitMain ==
    /\ records = << >>
    /\ ri = 0
    /\ allLocalInfo = EmptyMap
    /\ allRemoteInfo = EmptyMap
    /\ polled = << >>
    /\ mpc = "read"
    /\ DecIdle /\ LocIdle /\ RemIdle /\ IdxIdle

\* lines 39, 44-45: readCSV succeeded
ReadCSV ==
    /\ mpc = "read"
    /\ records' \in SeqsUpTo(InputRecords, MaxRecords)
    /\ mpc' = "loop"
    /\ UNCHANGED <<ri, allLocalInfo, allRemoteInfo, polled,
                   decVars, locVars, remVars, idxVars>>

\* lines 40-42: log.Fatalf ends the process
ReadCSVError ==
    /\ mpc = "read"
    /\ mpc' = "fatal-read"
    /\ UNCHANGED <<records, ri, allLocalInfo, allRemoteInfo, polled,
                   decVars, locVars, remVars, idxVars>>

Polling == mpc = "loop" /\ ri < Len(records)
Outcome(what, local, remote) == [outcome |-> what, local |-> local, remote |-> remote]

\* lines 48-51: a record with fewer than two fields is skipped
SkipInvalid ==
    /\ Polling
    /\ Len(records[ri + 1]) < 2
    /\ ri' = ri + 1
    /\ polled' = Append(polled, Outcome("invalid", EmptyMap, << >>))
    /\ UNCHANGED <<records, allLocalInfo, allRemoteInfo, mpc,
                   decVars, locVars, remVars, idxVars>>

\* line 55 with lines 92-95: snmp.Connect failed inside initializeSNMP, and
\* log.Fatalf ends the process
ConnectFail ==
    /\ Polling
    /\ Len(records[ri + 1]) >= 2
    /\ polled' = Append(polled, Outcome("connect-failed", EmptyMap, << >>))
    /\ mpc' = "fatal-connect"
    /\ UNCHANGED <<records, ri, allLocalInfo, allRemoteInfo,
                   decVars, locVars, remVars, idxVars>>

\* lines 58-62: fetchLocalLLDP returned an error; continue
LocalFail ==
    /\ Polling
    /\ Len(records[ri + 1]) >= 2
    /\ ri' = ri + 1
    /\ polled' = Append(polled, Outcome("local-failed", EmptyMap, << >>))
    /\ UNCHANGED <<records, allLocalInfo, allRemoteInfo, mpc,
                   decVars, locVars, remVars, idxVars>>

\* lines 64-68: fetchRemoteLLDP returned an error; continue
RemoteFail ==
    /\ Polling
    /\ Len(records[ri + 1]) >= 2
    /\ ri' = ri + 1
    /\ polled' = Append(polled, Outcome("remote-failed", EmptyMap, << >>))
    /\ UNCHANGED <<records, allLocalInfo, allRemoteInfo, mpc,
                   decVars, locVars, remVars, idxVars>>

\* lines 52-71: both fetches succeeded; the results are stored under the target
PollOK ==
    /\ Polling
    /\ Len(records[ri + 1]) >= 2
    /\ \E response \in MainResponses, cells \in MainWalks :
          LET target     == records[ri + 1][1]
              localInfo  == fetchLocalLLDP(response)
              remoteInfo == fetchRemoteLLDP(cells)
          IN  /\ allLocalInfo' = MapSet(allLocalInfo, target, localInfo)
              /\ allRemoteInfo' = MapSet(allRemoteInfo, target, remoteInfo)
              /\ polled' = Append(polled, Outcome("ok", localInfo, remoteInfo))
    /\ ri' = ri + 1
    /\ UNCHANGED <<records, mpc, decVars, locVars, remVars, idxVars>>

\* lines 74, 79: writeBatchCSV wrote the output file
WriteCSV ==
    /\ mpc = "loop"
    /\ ri = Len(records)
    /\ mpc' = "written"
    /\ UNCHANGED <<records, ri, allLocalInfo, allRemoteInfo, polled,
                   decVars, locVars, remVars, idxVars>>

\* lines 75-77: writeBatchCSV could not create the file; log.Fatalf
WriteCSVError ==
    /\ mpc = "loop"
    /\ ri = Len(records)
    /\ mpc' = "fatal-write"
    /\ UNCHANGED <<records, ri, allLocalInfo, allRemoteInfo, polled,
                   decVars, locVars, remVars, idxVars>>

NextMain ==
    \/ ReadCSV \/ ReadCSVError
    \/ SkipInvalid \/ ConnectFail \/ LocalFail \/ RemoteFail \/ PollOK
    \/ WriteCSV \/ WriteCSVError
SpecMain == InitMain /\ [][NextMain]_vars

\* the last successful poll of the target of record k is poll k
LastOkOfTarget(k) ==
    /\ polled[k].outcome = "ok"
    /\ \A h \in (k + 1)..Len(polled) :
          polled[h].outcome = "ok" => records[h][1] # records[k][1]

(***************************************************************************)
(* C8: a transport failure for one target at any stage (session connect,   *)
(* local get, remote walk) skips that target only: every later target is   *)
(* still polled, the results of the successful targets are kept and the    *)
(* output CSV is written.                                                  *)
(***************************************************************************)
C8_FailureSkipsOnlyThatTarget ==
    (mpc \in {"written", "fatal-connect"}) =>
        /\ mpc = "written"
        /\ Len(polled) = Len(records)
        /\ \A k \in 1..Len(polled) :
              LastOkOfTarget(k) =>
                 /\ records[k][1] \in DOMAIN allLocalInfo
                 /\ allLocalInfo[records[k][1]] = polled[k].local
                 /\ allRemoteInfo[records[k][1]] = polled[k].remote

=============================================================================
